---- MODULE Spec2Model ----
(***************************************************************************)
(* Keystone token drivers.                                                 *)
(*                                                                         *)
(* Redis driver (keystone/token/backends/redis.py): one string key per     *)
(* token, written with SETEX, one sorted set per user (members are token   *)
(* ids, scores are expiry timestamps) and one sorted set of revoked token  *)
(* records.  Every backend call of a handler is one atomic step of the     *)
(* process running it; local computation is folded into the backend call   *)
(* that follows it.                                                        *)
(*                                                                         *)
(* Time is counted in ticks, TicksPerSecond ticks to a second: datetimes   *)
(* (utcnow(), data['expires']) carry sub-second parts, while               *)
(* _to_timestamp and the SETEX argument are whole seconds.                 *)
(***************************************************************************)
EXTENDS Integers, Sequences, FiniteSets, TLC

VARIABLES
    now,            \* the wall clock, in ticks (timeutils.utcnow())
    store,          \* Redis string keys keystone:token:<id>
    zsets,          \* Redis sorted sets keystone:user:<id>, keystone:token:revoked
    trust_enabled,  \* CONF.trust.enabled
    saving,         \* Redis: a background save is running
    pc,             \* per caller: where it is in its handler
    loc,            \* per caller: the handler's local variables
    result,         \* per caller: what the finished handler returned or raised
    deleted,        \* history: per token id, the record of the last completed
                    \* delete_token, cleared by the next create_token of the id
    calls,          \* history: how many handler calls have been made
    mc_cache,       \* memcache driver: MemcacheClient.cache
    reject_cas      \* memcache driver: MemcacheClient.reject_cas

vars ==
    <<now, store, zsets, trust_enabled, saving, pc, loc, result, deleted, calls,
      mc_cache, reject_cas>>

\* The state of the Redis server and of the memcache client.
redis == <<store, zsets, saving>>
memcache == <<mc_cache, reject_cas>>

---------------------------------------------------------------------------
\* Bounds of the model.

NProc == 2
MaxTime == 3
MaxCalls == 4
MaxConcurrentCalls == 4
MaxRevokeCalls == 3
TicksPerSecond == 2

\* CONF.token.expiration, in ticks: what token.default_expire_time() adds.
TokenExpirationSeconds == 2
TokenExpiration == TokenExpirationSeconds * TicksPerSecond

Procs == 1..NProc
TokenIds == {"t1", "t2", "t3"}
Users == {"u1", "u2"}

\* Rank of a token id among the members of a sorted set with equal scores
\* (Redis orders them by their bytes).
TokenRank == [t \in TokenIds |-> CASE t = "t1" -> 1 [] t = "t2" -> 2 [] OTHER -> 3]

\* provider.V2 / provider.V3
V2 == "v2.0"
V3 == "v3.0"

NoExpires == -1

\* None, as returned by a GET of a missing key.
NoData ==
    [id |-> "", expires |-> NoExpires, user_id |-> "", user |-> "",
     tenant_id |-> "", trust_id |-> "", token_version |-> "",
     trustee_user_id |-> "", consumer_id |-> ""]

\* A token payload as the provider hands it to create_token.  "" is a
\* missing (or falsy) field; user is data['user']['id']; trustee_user_id is
\* the trustee in token_data; consumer_id is
\* token_data['token']['OS-OAUTH1']['consumer_id'], "" when that structure
\* is missing.
Payload(id, expires, user_id, user, tenant, trust, version, trustee, consumer) ==
    [id |-> id, expires |-> expires, user_id |-> user_id, user |-> user,
     tenant_id |-> tenant, trust_id |-> trust, token_version |-> version,
     trustee_user_id |-> trustee, consumer_id |-> consumer]

---------------------------------------------------------------------------
\* Helpers of the driver and the Redis commands it issues.

\* calendar.timegm(dt.timetuple()): the sub-second part is dropped.
_to_timestamp(dt) == dt \div TicksPerSecond

_get_key(type_, key) == <<type_, key>>

_revocation_list == <<"token", "revoked">>

TokenKeys == {_get_key("token", t) : t \in TokenIds}
ZKeys == {_get_key("user", u) : u \in Users} \cup {_revocation_list}

Nil == [present |-> FALSE, value |-> NoData, expire_at |-> 0]

\* The SETEX argument: redis-py turns a timedelta into whole seconds
\* (seconds + days * 86400).
SetexSeconds(ttl) == ttl \div TicksPerSecond

\* SETEX answers "invalid expire time" unless the seconds are positive.
SetexAccepts(ttl) == SetexSeconds(ttl) > 0

\* Token._set: SETEX key ttl pickle(value), executed at time clock.
_set(s, key, value, ttl, clock) ==
    [s EXCEPT ![key] = [present |-> TRUE, value |-> value,
                        expire_at |-> clock + SetexSeconds(ttl) * TicksPerSecond]]

\* A GET that still answers for a key whose time to live has run out.
_get_stale(s, key, clock) ==
    IF s[key].present THEN s[key].value ELSE NoData

\* Token._get: GET key; a key is gone from the moment its time to live has
\* run out.
_get(s, key, clock) ==
    IF s[key].present /\ clock < s[key].expire_at THEN s[key].value ELSE NoData

\* A DEL that leaves the key in place.
_delete_nothing(s, key) == s

\* DEL key
_delete(s, key) == [s EXCEPT ![key] = Nil]

\* A ZADD that replaces the set instead of adding to it.
_zadd_replacing(z, key, score, value) ==
    [z EXCEPT ![key] = {[member |-> value, score |-> score]}]

\* Token._zadd: ZADD key score pickle(value); a member already in the set
\* only has its score updated.
_zadd(z, key, score, value) ==
    [z EXCEPT ![key] = {e \in @ : e.member # value}
                       \cup {[member |-> value, score |-> score]}]

\* A ZADD that is dropped.
_zadd_nothing(z, key, score, value) == z

\* delete_token's ZADD: Token._zadd.
_zadd_revoked(z, key, score, value) == _zadd(z, key, score, value)

\* The first member of a non-empty sorted set: lowest score, ties by the
\* members' bytes (by TokenRank for token ids, a fixed order for records).
ZFirst(key, S) ==
    LET lows == {e \in S : \A f \in S : e.score <= f.score}
    IN  IF key = _revocation_list
        THEN CHOOSE e \in lows : TRUE
        ELSE CHOOSE e \in lows :
                 \A f \in lows : TokenRank[e.member] <= TokenRank[f.member]

RECURSIVE ZOrder(_, _)
ZOrder(key, S) ==
    IF S = {} THEN <<>>
    ELSE LET e == ZFirst(key, S)
         IN  <<e.member>> \o ZOrder(key, S \ {e})

\* Token._zrange: ZRANGE key start end, unpickled; indexes are inclusive
\* and a negative one counts from the end.
_zrange(z, key, start, end) ==
    LET all == ZOrder(key, z[key])
        n == Len(all)
        lo == IF start < 0 THEN (IF n + start < 0 THEN 0 ELSE n + start) ELSE start
        hi == IF end < 0 THEN n + end ELSE (IF end >= n THEN n - 1 ELSE end)
    IN  SubSeq(all, lo + 1, hi + 1)

\* A prune that leaves the entries of the current second in place.
_remove_expired_exclusive(z, key, clock) ==
    [z EXCEPT ![key] =
        {e \in @ : ~(0 <= e.score /\ e.score < _to_timestamp(clock))}]

\* Token._remove_expired: ZREMRANGEBYSCORE key 0 <current timestamp>.
_remove_expired(z, key, clock) ==
    [z EXCEPT ![key] =
        {e \in @ : ~(0 <= e.score /\ e.score <= _to_timestamp(clock))}]

---------------------------------------------------------------------------
\* What a handler hands back: a return value or a raised exception.

Outcome(op, arg, status, data, tokens) ==
    [op |-> op, arg |-> arg, status |-> status, data |-> data, tokens |-> tokens]

NoResult == Outcome("", "", "", NoData, <<>>)

\* The value stored under a user's index key: the list of (token id,
\* expiry) pairs, the older format (a JSON string of token ids), a string
\* that is no JSON, or a value that is no string.  items is what a reader
\* who took the value for a list would find in it.
IndexBlob(kind, items) == [kind |-> kind, items |-> items]

\* The index of a user without one.
EmptyIndex == IndexBlob("list", <<>>)

NoLocals ==
    [token_id |-> "", data |-> NoData, current_time |-> 0, bgsave_calls |-> 0,
     user_record |-> EmptyIndex, cas_retry |-> 0]

---------------------------------------------------------------------------
\* The handlers of the Redis driver.

\* Token.get_token: [status, data].
get_token(s, token_id, clock) ==
    IF token_id = ""
    THEN [status |-> "TokenNotFound", data |-> NoData]
    ELSE LET ret == _get(s, _get_key("token", token_id), clock)
         IN  IF ret = NoData
             THEN [status |-> "TokenNotFound", data |-> NoData]
             ELSE [status |-> "ok", data |-> ret]

\* Token.create_token, up to its first backend call: the deep copy with
\* 'expires' defaulted and 'user_id' filled in from data['user']['id'].
create_token_data(data, clock) ==
    [data EXCEPT
        !.expires = IF @ = NoExpires THEN clock + TokenExpiration ELSE @,
        !.user_id = IF @ = "" THEN data.user ELSE @]

\* A trust check that ignores CONF.trust.enabled.
create_token_trust_unconfigured(enabled, data) == data.trust_id # ""

\* Token.create_token: does the record get a second index entry, under the
\* trustee's id?
create_token_trust(enabled, data) == enabled /\ data.trust_id # ""

\* A version check that takes any version for a known one.
create_token_any_version(data) == TRUE

\* Token.create_token: the token versions whose trustee can be extracted.
create_token_known_version(data) == data.token_version \in {V2, V3}

\* A loop body without the "if not token_data: continue".
list_tokens_keeps_missing(token_data, tenant_id, trust_id, consumer_id) ==
    /\ ~(tenant_id # "" /\ token_data.tenant_id # tenant_id)
    /\ ~(trust_id # "" /\ token_data.trust_id # trust_id)
    /\ ~(consumer_id # "" /\ token_data.consumer_id # consumer_id)

\* A loop body without the trust filter.
list_tokens_keeps_any_trust(token_data, tenant_id, trust_id, consumer_id) ==
    /\ token_data # NoData
    /\ ~(tenant_id # "" /\ token_data.tenant_id # tenant_id)
    /\ ~(consumer_id # "" /\ token_data.consumer_id # consumer_id)

\* Token.list_tokens: does the record fetched for an indexed id pass the
\* presence check and the filters (the loop's "continue"s)?
list_tokens_keeps(token_data, tenant_id, trust_id, consumer_id) ==
    /\ token_data # NoData
    /\ ~(tenant_id # "" /\ token_data.tenant_id # tenant_id)
    /\ ~(trust_id # "" /\ token_data.trust_id # trust_id)
    /\ ~(consumer_id # "" /\ token_data.consumer_id # consumer_id)

RECURSIVE list_tokens_loop(_, _, _, _, _, _, _, _)
list_tokens_loop(s, clock, user_tokens, i, tenant_id, trust_id, consumer_id, tokens) ==
    IF i > Len(user_tokens) THEN tokens
    ELSE LET token_id == user_tokens[i]
             token_data == _get(s, _get_key("token", token_id), clock)
         IN  list_tokens_loop(s, clock, user_tokens, i + 1,
                 tenant_id, trust_id, consumer_id,
                 IF list_tokens_keeps(token_data, tenant_id, trust_id, consumer_id)
                 THEN Append(tokens, token_id)
                 ELSE tokens)

\* Token.list_tokens: the sorted sets after the prune, and the ids returned.
list_tokens(s, z, clock, user_id, tenant_id, trust_id, consumer_id) ==
    LET skey == _get_key("user", user_id)
        pruned == _remove_expired(z, skey, clock)
        user_tokens == _zrange(pruned, skey, 0, -1)
    IN  [z |-> pruned,
         tokens |-> list_tokens_loop(s, clock, user_tokens, 1,
                                     tenant_id, trust_id, consumer_id, <<>>)]

\* Token.list_revoked_tokens: the sorted sets after the prune, and the
\* revoked records returned.
list_revoked_tokens(z, clock) ==
    LET pruned == _remove_expired(z, _revocation_list, clock)
    IN  [z |-> pruned, tokens |-> _zrange(pruned, _revocation_list, 0, -1)]

---------------------------------------------------------------------------
\* The memcache driver.  Its client is the MemcacheClient of
\* tests/test_backend_memcache.py; the driver itself
\* (keystone/token/backends/memcache.py) is modelled from the specification.

McKeys == {<<"tokens", t>> : t \in TokenIds} \cup {<<"usertokens", u>> : u \in Users}

McNil == [present |-> FALSE, value |-> <<>>, time |-> 0]

\* MemcacheClient.get: [found, value]; an entry set with time 0 never
\* expires, another one is gone once the clock's second reaches its time.
mc_get(cache, key, clock) ==
    LET obj == cache[key]
    IN  IF obj.present /\ (obj.time = 0 \/ obj.time > _to_timestamp(clock))
        THEN [found |-> TRUE, value |-> obj.value]
        ELSE [found |-> FALSE, value |-> <<>>]

\* MemcacheClient.gets
mc_gets(cache, key, clock) == mc_get(cache, key, clock)

\* MemcacheClient.set
mc_set(cache, key, value, time) ==
    [cache EXCEPT ![key] = [present |-> TRUE, value |-> value, time |-> time]]

\* A cas that goes through whatever reject_cas says.
mc_cas_unconditional(cache, reject, key, value, time) ==
    [ok |-> TRUE, cache |-> mc_set(cache, key, value, time)]

\* MemcacheClient.cas: [ok, cache].
mc_cas(cache, reject, key, value, time) ==
    IF reject
    THEN [ok |-> FALSE, cache |-> cache]
    ELSE [ok |-> TRUE, cache |-> mc_set(cache, key, value, time)]

\* A conversion that takes whatever it is given for a list.
_convert_user_index_unchecked(blob, clock) == blob.items

\* _convert_user_index_from_json, and the isinstance(record, list) test
\* before it: a list is taken as it is, the ids of the older format get the
\* default expiry, and anything else is the empty list; nothing is raised.
_convert_user_index_from_json(blob, clock) ==
    CASE blob.kind = "list" -> blob.items
      [] blob.kind = "json" ->
             [i \in 1..Len(blob.items) |-> <<blob.items[i][1], clock + TokenExpiration>>]
      [] OTHER -> <<>>

\* A compare-and-swap that does not compare.
mc_cas_blind(cache, reject, key, expected, value, time, clock) ==
    mc_cas(cache, reject, key, value, time)

\* compareAndSwap of an atomic backend: one step that writes only if the
\* value stored under key is still the one fetched (absent and the empty
\* list are the same index), and answers FALSE otherwise.
mc_cas_atomic(cache, reject, key, expected, value, time, clock) ==
    LET cur == mc_gets(cache, key, clock)
    IN  IF (IF cur.found THEN cur.value ELSE EmptyIndex) = expected
        THEN mc_cas(cache, reject, key, value, time)
        ELSE [ok |-> FALSE, cache |-> cache]

\* How often _update_user_list_with_cas attempts its conditional write: once,
\* and once more after a reread.
CasAttempts == 2

\* An update that prunes nothing.
cas_filter_nothing(user_record, current_time) == user_record

\* _update_user_list_with_cas: the index entries kept by the lazy prune.
cas_filter(user_record, current_time) ==
    SelectSeq(user_record, LAMBDA e : e[2] > current_time)

\* _update_user_list_with_cas: the list written back.
cas_new_list(user_record, current_time, token_id, data) ==
    IndexBlob("list",
        Append(cas_filter(_convert_user_index_from_json(user_record, current_time),
                          current_time),
               <<token_id, data.expires>>))

\* Token.get_token of the memcache driver: [status, data].
mc_get_token(cache, token_id, clock) ==
    IF token_id = ""
    THEN [status |-> "TokenNotFound", data |-> NoData]
    ELSE LET r == mc_get(cache, <<"tokens", token_id>>, clock)
         IN  IF r.found
             THEN [status |-> "ok", data |-> r.value]
             ELSE [status |-> "TokenNotFound", data |-> NoData]

RECURSIVE mc_list_tokens_loop(_, _, _, _, _)
mc_list_tokens_loop(cache, clock, user_record, i, tokens) ==
    IF i > Len(user_record) THEN tokens
    ELSE LET token_id == user_record[i][1]
             token_ref == mc_get(cache, <<"tokens", token_id>>, clock)
         IN  mc_list_tokens_loop(cache, clock, user_record, i + 1,
                 IF /\ user_record[i][2] > clock
                    /\ token_ref.found
                    /\ list_tokens_keeps(token_ref.value, "", "", "")
                 THEN Append(tokens, token_id)
                 ELSE tokens)

\* Token.list_tokens of the memcache driver, without filters: the ids of
\* the decoded index whose entry has not expired and whose record is there.
mc_list_tokens(cache, clock, user_id) ==
    LET r == mc_get(cache, <<"usertokens", user_id>>, clock)
        user_record == _convert_user_index_from_json(
                           IF r.found THEN r.value ELSE EmptyIndex, clock)
    IN  mc_list_tokens_loop(cache, clock, user_record, 1, <<>>)

---------------------------------------------------------------------------
\* Inputs.

\* The payloads of the upstream provider for each token id, before the id
\* is filled in.  All belong to user u1 (t2 names it in data['user']['id']);
\* t2 and t3 are trust-delegated to u2, t2 possibly with a token version
\* the driver does not know.  The expiries are none (the default applies)
\* and datetimes with and without a sub-second part.
PayloadInputs(t) ==
    CASE t = "t1" -> {Payload("", e, "u1", "", "a", "", V2, "", "c1") :
                         e \in {NoExpires, 3}}
      [] t = "t2" -> {Payload("", e, "", "u1", "b", "tr1", v, "u2", "") :
                         e \in {NoExpires, 3, 4}, v \in {V2, "v9"}}
      [] OTHER -> {Payload("", e, "u1", "", "a", "tr1", V3, "u2", "c2") :
                         e \in {NoExpires}}

\* The payloads of concurrent callers: the default expiry, a known version.
ConcurrentInputs(t) ==
    {d \in PayloadInputs(t) : d.expires = NoExpires /\ d.token_version # "v9"}

\* The payloads given to the memcache driver, which does not look at the
\* token version: the default expiry and one with a sub-second part.
CasInputs(t) ==
    {d \in PayloadInputs(t) : d.token_version # "v9" /\ d.expires \in {NoExpires, 3}}

\* The values a test or a faulty writer puts under a user's index key
\* directly: a string that is no JSON, a value that is no string, the
\* older format.
StoredIndexInputs ==
    {IndexBlob("invalid_json", <<<<"t1", MaxTime + 1>>>>),
     IndexBlob("non_string", <<<<"t1", MaxTime + 1>>>>),
     IndexBlob("json", <<<<"t2", 0>>>>)}

\* The callers that create and delete concurrently while time passes make
\* MaxRevokeCalls calls, with these token ids and payloads.
RevokeCall == calls < MaxRevokeCalls
RevokeIds == {"t1"}
RevokeInputs(t) == PayloadInputs(t)

\* The token id of the n-th create_token, for callers that use every id
\* once.
FreshId(n) == IF n = 1 THEN "t1" ELSE ""

\* The token ids those callers create.
FreshIds == {"t1"}

\* The token ids of the callers that run one after the other.
SeqIds == {"t1", "t2"}

\* The filters of list_tokens: <<tenant_id, trust_id, consumer_id>>, "" for
\* one that is not given.
FilterInputs ==
    {<<"", "", "">>, <<"a", "", "">>, <<"", "tr1", "">>, <<"", "", "c1">>,
     <<"b", "tr1", "">>}

---------------------------------------------------------------------------
\* The state machine.

Init ==
    /\ now = 0
    /\ store = [k \in TokenKeys |-> Nil]
    /\ zsets = [k \in ZKeys |-> {}]
    /\ trust_enabled \in BOOLEAN
    /\ saving = FALSE
    /\ pc = [p \in Procs |-> "idle"]
    /\ loc = [p \in Procs |-> NoLocals]
    /\ result = [p \in Procs |-> NoResult]
    /\ deleted = [t \in TokenIds |-> NoData]
    /\ calls = 0
    /\ mc_cache = [k \in McKeys |-> McNil]
    /\ reject_cas = FALSE

\* A caller that is free calls a handler.
Call(p) ==
    /\ pc[p] = "idle"
    /\ calls < MaxCalls
    /\ calls' = calls + 1

\* The callers that run concurrently make MaxConcurrentCalls calls.
ConcurrentCall == calls < MaxConcurrentCalls

\* The handler of p ends: it returns or raises.
Finish(p, outcome) ==
    /\ pc' = [pc EXCEPT ![p] = "done"]
    /\ result' = [result EXCEPT ![p] = outcome]

\* create_token, to the end of self._set(...).
CreateSet(p, token_id, payload) ==
    /\ Call(p)
    /\ LET data == create_token_data([payload EXCEPT !.id = token_id], now)
           ttl == data.expires - now
       IN  /\ loc' = [loc EXCEPT ![p] = [NoLocals EXCEPT !.token_id = token_id,
                                           !.data = data, !.current_time = now]]
           /\ IF SetexAccepts(ttl)
              THEN /\ store' = _set(store, _get_key("token", token_id), data, ttl, now)
                   /\ pc' = [pc EXCEPT ![p] = "c_zadd_user"]
                   /\ UNCHANGED result
              ELSE /\ Finish(p, Outcome("create_token", token_id, "ResponseError",
                                        NoData, <<>>))
                   /\ UNCHANGED store
    /\ deleted' = [deleted EXCEPT ![token_id] = NoData]
    /\ UNCHANGED <<now, zsets, trust_enabled, saving, memcache>>

\* A create_token that undoes its SETEX and leaves the owner's index alone
\* when it does not know the token version.
CreateZaddUserRollback(p) ==
    /\ pc[p] = "c_zadd_user"
    /\ LET data == loc[p].data
       IN  IF create_token_trust(trust_enabled, data)
              /\ ~create_token_known_version(data)
           THEN /\ store' = _delete(store, _get_key("token", loc[p].token_id))
                /\ UNCHANGED zsets
                /\ Finish(p, Outcome("create_token", loc[p].token_id,
                                     "UnsupportedTokenVersionException", NoData, <<>>))
           ELSE /\ zsets' = _zadd(zsets, _get_key("user", data.user_id),
                                  _to_timestamp(data.expires), loc[p].token_id)
                /\ UNCHANGED store
                /\ IF create_token_trust(trust_enabled, data)
                   THEN /\ pc' = [pc EXCEPT ![p] = "c_zadd_trustee"]
                        /\ UNCHANGED result
                   ELSE Finish(p, Outcome("create_token", loc[p].token_id, "ok",
                                          data, <<>>))
    /\ UNCHANGED <<now, trust_enabled, saving, loc, deleted, calls, memcache>>

\* create_token, the first self._zadd(...) to the second or to the end.
CreateZaddUser(p) ==
    /\ pc[p] = "c_zadd_user"
    /\ LET data == loc[p].data
       IN  /\ zsets' = _zadd(zsets, _get_key("user", data.user_id),
                             _to_timestamp(data.expires), loc[p].token_id)
           /\ IF create_token_trust(trust_enabled, data)
              THEN IF create_token_known_version(data)
                   THEN /\ pc' = [pc EXCEPT ![p] = "c_zadd_trustee"]
                        /\ UNCHANGED result
                   ELSE Finish(p, Outcome("create_token", loc[p].token_id,
                                   "UnsupportedTokenVersionException", NoData, <<>>))
              ELSE Finish(p, Outcome("create_token", loc[p].token_id, "ok",
                                     data, <<>>))
    /\ UNCHANGED <<now, store, trust_enabled, saving, loc, deleted, calls, memcache>>

\* create_token, the second self._zadd(...) to the end.
CreateZaddTrustee(p) ==
    /\ pc[p] = "c_zadd_trustee"
    /\ LET data == loc[p].data
       IN  /\ zsets' = _zadd(zsets, _get_key("user", data.trustee_user_id),
                             _to_timestamp(data.expires), loc[p].token_id)
           /\ Finish(p, Outcome("create_token", loc[p].token_id, "ok", data, <<>>))
    /\ UNCHANGED <<now, store, trust_enabled, saving, loc, deleted, calls, memcache>>

\* get_token
GetToken(p, token_id) ==
    /\ Call(p)
    /\ LET r == get_token(store, token_id, now)
       IN  Finish(p, Outcome("get_token", token_id, r.status, r.data, <<>>))
    /\ UNCHANGED <<now, store, zsets, trust_enabled, saving, loc, deleted, memcache>>

\* A delete_token that adds the record to the revocation list as soon as it
\* has looked it up, before the DEL.
DeleteGetZaddFirst(p, token_id) ==
    /\ Call(p)
    /\ LET r == get_token(store, token_id, now)
       IN  IF r.status = "ok"
           THEN /\ pc' = [pc EXCEPT ![p] = "d_delete"]
                /\ loc' = [loc EXCEPT ![p] = [NoLocals EXCEPT !.token_id = token_id,
                                                !.data = r.data]]
                /\ zsets' = _zadd(zsets, _revocation_list,
                                  _to_timestamp(r.data.expires), r.data)
                /\ UNCHANGED result
           ELSE /\ Finish(p, Outcome("delete_token", token_id, r.status, NoData, <<>>))
                /\ loc' = [loc EXCEPT ![p] = [NoLocals EXCEPT !.token_id = token_id]]
                /\ UNCHANGED zsets
    /\ UNCHANGED <<now, store, trust_enabled, saving, deleted, memcache>>

\* delete_token, to the end of self.get_token(token_id).
DeleteGet(p, token_id) ==
    /\ Call(p)
    /\ LET r == get_token(store, token_id, now)
       IN  IF r.status = "ok"
           THEN /\ pc' = [pc EXCEPT ![p] = "d_delete"]
                /\ loc' = [loc EXCEPT ![p] = [NoLocals EXCEPT !.token_id = token_id,
                                                !.data = r.data]]
                /\ UNCHANGED result
           ELSE /\ Finish(p, Outcome("delete_token", token_id, r.status, NoData, <<>>))
                /\ loc' = [loc EXCEPT ![p] = [NoLocals EXCEPT !.token_id = token_id]]
    /\ UNCHANGED <<now, store, zsets, trust_enabled, saving, deleted, memcache>>

\* A delete_token that goes from its DEL straight to the BGSAVE.
DeleteDelThenSave(p) ==
    /\ pc[p] = "d_delete"
    /\ store' = _delete(store, _get_key("token", loc[p].token_id))
    /\ pc' = [pc EXCEPT ![p] = "d_bgsave"]
    /\ UNCHANGED <<now, zsets, trust_enabled, saving, loc, result, deleted, calls, memcache>>

\* delete_token: self._client.delete(...)
DeleteDel(p) ==
    /\ pc[p] = "d_delete"
    /\ store' = _delete(store, _get_key("token", loc[p].token_id))
    /\ pc' = [pc EXCEPT ![p] = "d_zadd"]
    /\ UNCHANGED <<now, zsets, trust_enabled, saving, loc, result, deleted, calls, memcache>>

\* delete_token: self._zadd(self._revocation_list, ...)
DeleteZadd(p) ==
    /\ pc[p] = "d_zadd"
    /\ zsets' = _zadd_revoked(zsets, _revocation_list,
                              _to_timestamp(loc[p].data.expires), loc[p].data)
    /\ pc' = [pc EXCEPT ![p] = "d_bgsave"]
    /\ UNCHANGED <<now, store, trust_enabled, saving, loc, result, deleted, calls, memcache>>

\* delete_token: self._client.bgsave().  Redis refuses a BGSAVE while a
\* background save is running.
DeleteBgsave(p) ==
    /\ pc[p] = "d_bgsave"
    /\ loc' = [loc EXCEPT ![p].bgsave_calls = @ + 1]
    /\ IF saving
       THEN /\ Finish(p, Outcome("delete_token", loc[p].token_id, "ResponseError",
                                 NoData, <<>>))
            /\ UNCHANGED <<saving, deleted>>
       ELSE /\ Finish(p, Outcome("delete_token", loc[p].token_id, "ok",
                                 NoData, <<>>))
            /\ saving' = TRUE
            /\ deleted' = [deleted EXCEPT ![loc[p].token_id] = loc[p].data]
    /\ UNCHANGED <<now, store, zsets, trust_enabled, calls, memcache>>

\* list_tokens
ListTokens(p, user_id, tenant_id, trust_id, consumer_id) ==
    /\ Call(p)
    /\ LET r == list_tokens(store, zsets, now, user_id, tenant_id, trust_id,
                            consumer_id)
       IN  /\ zsets' = r.z
           /\ Finish(p, Outcome("list_tokens",
                                <<user_id, tenant_id, trust_id, consumer_id>>,
                                "ok", NoData, r.tokens))
    /\ UNCHANGED <<now, store, trust_enabled, saving, loc, deleted, memcache>>

\* list_revoked_tokens
ListRevokedTokens(p) ==
    /\ Call(p)
    /\ LET r == list_revoked_tokens(zsets, now)
       IN  /\ zsets' = r.z
           /\ Finish(p, Outcome("list_revoked_tokens", "", "ok", NoData, r.tokens))
    /\ UNCHANGED <<now, store, trust_enabled, saving, loc, deleted, memcache>>

\* The caller takes the outcome and is free for its next call.
Return(p) ==
    /\ pc[p] = "done"
    /\ pc' = [pc EXCEPT ![p] = "idle"]
    /\ loc' = [loc EXCEPT ![p] = NoLocals]
    /\ result' = [result EXCEPT ![p] = NoResult]
    /\ UNCHANGED <<now, store, zsets, trust_enabled, saving, deleted, calls, memcache>>

\* Redis finishes its background save.
BgsaveDone ==
    /\ saving
    /\ saving' = FALSE
    /\ UNCHANGED <<now, store, zsets, trust_enabled, pc, loc, result, deleted, calls, memcache>>

\* Time passes.
Tick ==
    /\ now < MaxTime
    /\ now' = now + 1
    /\ UNCHANGED <<store, zsets, trust_enabled, saving, pc, loc, result, deleted, calls, memcache>>

Step(p) ==
    \/ \E t \in SeqIds : \E d \in PayloadInputs(t) : CreateSet(p, t, d)
    \/ CreateZaddUser(p)
    \/ CreateZaddTrustee(p)
    \/ \E t \in SeqIds \cup {""} : GetToken(p, t)
    \/ \E t \in SeqIds \cup {""} : DeleteGet(p, t)
    \/ DeleteDel(p)
    \/ DeleteZadd(p)
    \/ DeleteBgsave(p)
    \/ \E u \in Users, f \in FilterInputs : ListTokens(p, u, f[1], f[2], f[3])
    \/ ListRevokedTokens(p)
    \/ Return(p)

\* Callers run one after the other.
NextSeq ==
    \/ Step(1)
    \/ BgsaveDone
    \/ Tick

SpecSeq == Init /\ [][NextSeq]_vars

ConcurrentStep(p) ==
    \/ ConcurrentCall /\ \E t \in TokenIds : \E d \in ConcurrentInputs(t) : CreateSet(p, t, d)
    \/ CreateZaddUser(p)
    \/ CreateZaddTrustee(p)
    \/ ConcurrentCall /\ \E t \in TokenIds : DeleteGet(p, t)
    \/ DeleteDel(p)
    \/ DeleteZadd(p)
    \/ DeleteBgsave(p)
    \/ ConcurrentCall /\ \E u \in Users : ListTokens(p, u, "", "", "")
    \/ Return(p)

\* Callers run concurrently: their backend calls interleave.  The calls are
\* made within one tick of the clock.
Next ==
    \/ \E p \in Procs : ConcurrentStep(p)
    \/ BgsaveDone

Spec == Init /\ [][Next]_vars

RevokeStep(p) ==
    \/ RevokeCall /\ \E t \in RevokeIds : \E d \in RevokeInputs(t) : CreateSet(p, t, d)
    \/ CreateZaddUser(p)
    \/ RevokeCall /\ \E t \in RevokeIds : DeleteGet(p, t)
    \/ DeleteDel(p)
    \/ DeleteZadd(p)
    \/ DeleteBgsave(p)
    \/ RevokeCall /\ ListRevokedTokens(p)
    \/ Return(p)

\* Callers create, delete and read the revocation list concurrently while
\* time passes.
NextRevoke ==
    \/ \E p \in Procs : RevokeStep(p)
    \/ BgsaveDone
    \/ Tick

SpecRevoke == Init /\ [][NextRevoke]_vars

FreshStep(p) ==
    \/ RevokeCall /\ \E t \in FreshIds :
           /\ t = FreshId(calls + 1)
           /\ \E d \in RevokeInputs(t) : CreateSet(p, t, d)
    \/ CreateZaddUser(p)
    \/ RevokeCall /\ \E t \in FreshIds : GetToken(p, t)
    \/ RevokeCall /\ \E t \in FreshIds : DeleteGet(p, t)
    \/ DeleteDel(p)
    \/ DeleteZadd(p)
    \/ DeleteBgsave(p)
    \/ RevokeCall /\ ListRevokedTokens(p)
    \/ Return(p)

\* Callers that never use a token id for a second create_token: the first
\* calls create the tokens; reads and deletes run concurrently with them
\* and with each other while time passes.
NextFresh ==
    \/ \E p \in Procs : FreshStep(p)
    \/ BgsaveDone
    \/ Tick

SpecFresh == Init /\ [][NextFresh]_vars

---------------------------------------------------------------------------
\* The memcache driver's state machine.

\* create_token of the memcache driver, to the end of the write of the
\* primary record.
McCreateSet(p, token_id, payload) ==
    /\ Call(p)
    /\ LET data == create_token_data([payload EXCEPT !.id = token_id], now)
       IN  /\ mc_cache' = mc_set(mc_cache, <<"tokens", token_id>>, data,
                                 _to_timestamp(data.expires))
           /\ loc' = [loc EXCEPT ![p] = [NoLocals EXCEPT !.token_id = token_id,
                                           !.data = data, !.current_time = now]]
    /\ pc' = [pc EXCEPT ![p] = "m_gets"]
    /\ UNCHANGED <<now, redis, trust_enabled, result, deleted, reject_cas>>

\* _update_user_list_with_cas: the fetch of the user's index.
McGets(p) ==
    /\ pc[p] = "m_gets"
    /\ LET r == mc_gets(mc_cache, <<"usertokens", loc[p].data.user_id>>, now)
       IN  loc' = [loc EXCEPT ![p].user_record =
                                  IF r.found THEN r.value ELSE EmptyIndex]
    /\ pc' = [pc EXCEPT ![p] = "m_cas"]
    /\ UNCHANGED <<now, redis, trust_enabled, result, deleted, calls, memcache>>

\* _update_user_list_with_cas: the conditional write, and what follows it:
\* the return, the reread or UnexpectedError.
McCas(p) ==
    /\ pc[p] = "m_cas"
    /\ LET r == mc_cas(mc_cache, reject_cas, <<"usertokens", loc[p].data.user_id>>,
                       cas_new_list(loc[p].user_record, loc[p].current_time,
                                    loc[p].token_id, loc[p].data), 0)
       IN  /\ mc_cache' = r.cache
           /\ IF r.ok
              THEN /\ Finish(p, Outcome("create_token", loc[p].token_id, "ok",
                                        loc[p].data, <<>>))
                   /\ UNCHANGED loc
              ELSE /\ loc' = [loc EXCEPT ![p].cas_retry = @ + 1]
                   /\ IF loc[p].cas_retry + 1 < CasAttempts
                      THEN /\ pc' = [pc EXCEPT ![p] = "m_gets"]
                           /\ UNCHANGED result
                      ELSE Finish(p, Outcome("create_token", loc[p].token_id,
                                             "UnexpectedError", NoData, <<>>))
    /\ UNCHANGED <<now, redis, trust_enabled, deleted, calls, reject_cas>>

\* get_token of the memcache driver.
McGetToken(p, token_id) ==
    /\ Call(p)
    /\ LET r == mc_get_token(mc_cache, token_id, now)
       IN  Finish(p, Outcome("get_token", token_id, r.status, r.data, <<>>))
    /\ UNCHANGED <<now, redis, trust_enabled, loc, deleted, memcache>>

\* The test switches the client's rejection of cas on or off.
SetRejectCas ==
    /\ reject_cas' = ~reject_cas
    /\ calls < MaxCalls
    /\ calls' = calls + 1
    /\ UNCHANGED <<now, redis, trust_enabled, pc, loc, result, deleted, mc_cache>>

\* list_tokens of the memcache driver.
McListTokens(p, user_id) ==
    /\ Call(p)
    /\ Finish(p, Outcome("list_tokens", <<user_id, "", "", "">>, "ok", NoData,
                         mc_list_tokens(mc_cache, now, user_id)))
    /\ UNCHANGED <<now, redis, trust_enabled, loc, deleted, memcache>>

\* A value is put under a user's index key directly (client.set).
McSetIndex(user_id, blob) ==
    /\ calls < MaxCalls
    /\ calls' = calls + 1
    /\ mc_cache' = mc_set(mc_cache, <<"usertokens", user_id>>, blob, 0)
    /\ UNCHANGED <<now, redis, trust_enabled, pc, loc, result, deleted, reject_cas>>

McStep(p) ==
    \/ \E t \in SeqIds : \E d \in CasInputs(t) : McCreateSet(p, t, d)
    \/ McGets(p)
    \/ McCas(p)
    \/ \E t \in SeqIds : McGetToken(p, t)
    \/ McListTokens(p, "u1")
    \/ Return(p)

\* One caller at a time; the test switches reject_cas and sets a user's
\* index between calls or inside one, and time passes.
NextCas ==
    \/ McStep(1)
    \/ SetRejectCas
    \/ \E b \in StoredIndexInputs : McSetIndex("u1", b)
    \/ Tick

SpecCas == Init /\ [][NextCas]_vars

\* _update_user_list_with_cas against an atomic backend: the conditional
\* write, and what follows it.
McCasAtomic(p) ==
    /\ pc[p] = "m_cas"
    /\ LET r == mc_cas_atomic(mc_cache, reject_cas,
                       <<"usertokens", loc[p].data.user_id>>, loc[p].user_record,
                       cas_new_list(loc[p].user_record, loc[p].current_time,
                                    loc[p].token_id, loc[p].data), 0, now)
       IN  /\ mc_cache' = r.cache
           /\ IF r.ok
              THEN /\ Finish(p, Outcome("create_token", loc[p].token_id, "ok",
                                        loc[p].data, <<>>))
                   /\ UNCHANGED loc
              ELSE /\ loc' = [loc EXCEPT ![p].cas_retry = @ + 1]
                   /\ IF loc[p].cas_retry + 1 < CasAttempts
                      THEN /\ pc' = [pc EXCEPT ![p] = "m_gets"]
                           /\ UNCHANGED result
                      ELSE Finish(p, Outcome("create_token", loc[p].token_id,
                                             "UnexpectedError", NoData, <<>>))
    /\ UNCHANGED <<now, redis, trust_enabled, deleted, calls, reject_cas>>

McConcurrentStep(p) ==
    \/ ConcurrentCall /\ \E t \in SeqIds : \E d \in ConcurrentInputs(t) :
                             McCreateSet(p, t, d)
    \/ McGets(p)
    \/ McCasAtomic(p)
    \/ Return(p)

\* Callers of the memcache driver run concurrently against an atomic
\* compare-and-swap backend, within one tick of the clock.
NextCasAtomic == \E p \in Procs : McConcurrentStep(p)

SpecCasAtomic == Init /\ [][NextCasAtomic]_vars

---------------------------------------------------------------------------
\* Properties.

Range(seq) == {seq[i] : i \in 1..Len(seq)}

\* The record of token t that a GET would return now.
Retrievable(t) == get_token(store, t, now).status = "ok"

\* The ids list_tokens(user_id) returns now, without filters.
Listed(user_id) == Range(list_tokens(store, zsets, now, user_id, "", "", "").tokens)

\* The index works in whole seconds: an entry is kept until the clock
\* reaches the second of its expiry.
BeforeExpirySecond(expires, clock) == _to_timestamp(clock) < _to_timestamp(expires)

CreateRunning == \E p \in Procs : pc[p] \in {"c_zadd_user", "c_zadd_trustee"}

\* C1: native-index strategy, concurrent create_token calls for one user:
\* once every create_token call has completed, under every interleaving of
\* the callers' backend steps, list_tokens(user) returns exactly the ids of
\* the user's tokens that are retrievable (created, not deleted) and whose
\* expiry second lies ahead: no index update is lost.
C1_NoLostIndexUpdate ==
    ~CreateRunning =>
        \A u \in Users :
            {t \in TokenIds : /\ Retrievable(t)
                              /\ get_token(store, t, now).data.user_id = u
                              /\ BeforeExpirySecond(
                                     get_token(store, t, now).data.expires, now)}
            = {t \in Listed(u) : get_token(store, t, now).data.user_id = u}

\* Witness of C1: every caller has completed a create_token for u1, the ids
\* are pairwise distinct, and list_tokens(u1) returns all of them.
C1_Witness ==
    /\ \A p \in Procs : /\ pc[p] = "done"
                        /\ result[p].op = "create_token"
                        /\ result[p].status = "ok"
                        /\ result[p].data.user_id = "u1"
    /\ \A p, q \in Procs : p # q => result[p].arg # result[q].arg
    /\ Listed("u1") = {result[p].arg : p \in Procs}

\* C2: for every token created (the create_token call has returned) with an
\* expiry E in the future and not deleted since, get_token returns data with
\* expires = E in every state where the clock has not passed E, and fails
\* with TokenNotFound in every state where the clock has passed E.
C2_RetrievableUntilExpiry ==
    \A t \in SeqIds :
        LET entry == store[_get_key("token", t)]
            E == entry.value.expires
            r == get_token(store, t, now)
        IN  (entry.present /\ ~CreateRunning) =>
                /\ now < E => r.status = "ok" /\ r.data.expires = E
                /\ now > E => r.status = "TokenNotFound"

\* C3: delete_token is not idempotent: once a delete_token(id) has
\* succeeded and no create_token(id) has been made since, a delete_token(id)
\* fails with TokenNotFound (and gets no further than its lookup).
C3_SecondDeleteFails ==
    [][\A p \in Procs :
          (/\ pc[p] = "idle"
           /\ (pc'[p] = "d_delete" \/ result'[p].op = "delete_token")
           /\ loc'[p].token_id \in TokenIds
           /\ deleted[loc'[p].token_id] # NoData)
          => /\ pc'[p] = "done"
             /\ result'[p].status = "TokenNotFound"]_vars

\* Witness of C3: a delete_token of an id whose previous delete_token
\* succeeded has failed with TokenNotFound.
C3_Witness ==
    \E p \in Procs :
        /\ pc[p] = "done"
        /\ result[p].op = "delete_token"
        /\ result[p].status = "TokenNotFound"
        /\ result[p].arg \in TokenIds
        /\ deleted[result[p].arg] # NoData

\* C4: after a successful delete_token(id) of a token with original expiry
\* E (and no create_token(id) since), get_token(id) fails with
\* TokenNotFound, list_revoked_tokens() contains the token's record while
\* the clock has not passed E and does not contain it once the clock has
\* passed E.
C4_RevokedUntilExpiry ==
    \A t \in SeqIds :
        deleted[t] # NoData =>
            LET revoked == Range(list_revoked_tokens(zsets, now).tokens)
            IN  /\ get_token(store, t, now).status = "TokenNotFound"
                /\ now < deleted[t].expires => deleted[t] \in revoked
                /\ now > deleted[t].expires => deleted[t] \notin revoked

\* C5: list_tokens never returns an id whose primary record is absent
\* (deleted, or its time to live run out), and a stale index entry does not
\* make it fail.
C5_ListSkipsAbsentRecords ==
    [][\A p \in Procs :
          (pc[p] = "idle" /\ result'[p].op = "list_tokens")
          => /\ result'[p].status = "ok"
             /\ \A t \in Range(result'[p].tokens) :
                    /\ store[_get_key("token", t)].present
                    /\ now < store[_get_key("token", t)].expire_at]_vars

\* Witness of C5: list_tokens has returned without an id that is in the
\* user's index and whose primary record is absent.
C5_Witness ==
    \E p \in Procs :
        /\ pc[p] = "done"
        /\ result[p].op = "list_tokens"
        /\ result[p].status = "ok"
        /\ \E e \in zsets[_get_key("user", result[p].arg[1])] :
               /\ e.member \notin Range(result[p].tokens)
               /\ ~store[_get_key("token", e.member)].present

\* C6: create_token with an expiry that is not in the future (expires - now
\* <= 0) is accepted; the record is gone on the next read, so get_token
\* fails with TokenNotFound and list_tokens(user) does not return the id.
C6_ExpiredCreateAccepted ==
    \A p \in Procs :
        (/\ pc[p] = "done"
         /\ result[p].op = "create_token"
         /\ loc[p].data.expires <= loc[p].current_time)
        => /\ result[p].status = "ok"
           /\ get_token(store, loc[p].token_id, now).status = "TokenNotFound"
           /\ loc[p].token_id \notin Listed(loc[p].data.user_id)

\* The sorted sets z1 and z2 are the same except at key.
SameExcept(z1, z2, key) == \A k \in ZKeys \ {key} : z1[k] = z2[k]

\* The index entry create_token writes for the token of caller p.
IndexEntry(p) ==
    [member |-> loc[p].token_id, score |-> _to_timestamp(loc[p].data.expires)]

\* C7: create_token for a record that carries a trust id, with trust support
\* enabled, adds the entry (token id, expiry) to the owner's index and to
\* the trustee's index, so that list_tokens(owner) and list_tokens(trustee)
\* both return the id (as long as the record is retrievable and its expiry
\* second lies ahead); with trust support disabled or without a trust id,
\* only the owner's index is modified and every other index is unchanged.
C7_TrustIndexing ==
    [][\A p \in Procs :
          LET data == loc[p].data
              trust == trust_enabled /\ data.trust_id # ""
              owner == _get_key("user", data.user_id)
              trustee == _get_key("user", data.trustee_user_id)
          IN  /\ (pc[p] = "c_zadd_user" /\ pc'[p] # "c_zadd_user")
                  => /\ IndexEntry(p) \in zsets'[owner]
                     /\ SameExcept(zsets, zsets', owner)
                     /\ ~trust => pc'[p] = "done" /\ result'[p].status = "ok"
              /\ (pc[p] = "c_zadd_trustee" /\ pc'[p] # "c_zadd_trustee")
                  => /\ trust
                     /\ IndexEntry(p) \in zsets'[trustee]
                     /\ SameExcept(zsets, zsets', trustee)
              /\ (/\ pc[p] \in {"c_zadd_user", "c_zadd_trustee"}
                  /\ pc'[p] = "done"
                  /\ result'[p].status = "ok"
                  /\ get_token(store', loc[p].token_id, now').status = "ok"
                  /\ BeforeExpirySecond(data.expires, now'))
                  => /\ loc[p].token_id \in
                            Range(list_tokens(store', zsets', now', data.user_id,
                                              "", "", "").tokens)
                     /\ trust => loc[p].token_id \in
                            Range(list_tokens(store', zsets', now',
                                              data.trustee_user_id, "", "", "").tokens)
                     /\ ~trust => pc[p] = "c_zadd_user"]_vars

\* Witness of C7: a create_token of a trust-delegated record has returned
\* with trust support enabled, and the id is listed for owner and trustee.
C7_Witness ==
    \E p \in Procs :
        /\ pc[p] = "done"
        /\ result[p].op = "create_token"
        /\ result[p].status = "ok"
        /\ trust_enabled
        /\ result[p].data.trust_id # ""
        /\ result[p].data.trustee_user_id # result[p].data.user_id
        /\ result[p].arg \in Listed(result[p].data.user_id)
        /\ result[p].arg \in Listed(result[p].data.trustee_user_id)

\* Does the record stored for token t pass the filters f = <<tenant_id,
\* trust_id, consumer_id>> at time clock?
Matches(s, clock, t, f) ==
    LET entry == s[_get_key("token", t)]
    IN  /\ entry.present
        /\ clock < entry.expire_at
        /\ f[1] = "" \/ entry.value.tenant_id = f[1]
        /\ f[2] = "" \/ entry.value.trust_id = f[2]
        /\ f[3] = "" \/ (entry.value.consumer_id # "" /\ entry.value.consumer_id = f[3])

\* The score of member m in sorted set S.
ScoreOf(S, m) == (CHOOSE e \in S : e.member = m).score

\* C8: list_tokens(user, tenant?, trust?, consumer?) returns, in index
\* order, exactly the ids of the user's pruned index whose primary record is
\* present and matches every filter given, by equality; with a consumer id
\* given, a record without the OAuth structure is skipped, and the call does
\* not fail.
C8_ListTokensFilters ==
    [][\A p \in Procs :
          (pc[p] = "idle" /\ result'[p].op = "list_tokens")
          => LET arg == result'[p].arg
                 f == <<arg[2], arg[3], arg[4]>>
                 index == zsets'[_get_key("user", arg[1])]
                 got == result'[p].tokens
             IN  /\ result'[p].status = "ok"
                 /\ Range(got) = {e.member : e \in {x \in index :
                                      Matches(store, now, x.member, f)}}
                 /\ \A i, j \in 1..Len(got) :
                        i < j =>
                            /\ got[i] # got[j]
                            /\ \/ ScoreOf(index, got[i]) < ScoreOf(index, got[j])
                               \/ /\ ScoreOf(index, got[i]) = ScoreOf(index, got[j])
                                  /\ TokenRank[got[i]] < TokenRank[got[j]]]_vars

\* Witness of C8: list_tokens with a consumer id has returned one id of the
\* index and skipped another whose record is present but has no OAuth
\* structure.
C8_Witness ==
    \E p \in Procs :
        /\ pc[p] = "done"
        /\ result[p].op = "list_tokens"
        /\ result[p].arg[4] # ""
        /\ Len(result[p].tokens) > 0
        /\ \E e \in zsets[_get_key("user", result[p].arg[1])] :
               /\ e.member \notin Range(result[p].tokens)
               /\ Retrievable(e.member)
               /\ get_token(store, e.member, now).data.consumer_id = ""

\* Is the outcome that of a create_token that got past its SETEX for a
\* trust-delegated record of unknown token version, with trust enabled?
UnknownVersionCreate(p) ==
    /\ result[p].op = "create_token"
    /\ trust_enabled
    /\ loc[p].data.trust_id # ""
    /\ loc[p].data.token_version \notin {V2, V3}
    /\ SetexAccepts(loc[p].data.expires - loc[p].current_time)

C10_CasRejectionFails ==
    [][\A p \in Procs :
        (pc[p] = "m_cas" /\ pc'[p] # "m_cas" /\ reject_cas) =>
            /\ mc_cache' = mc_cache
            /\ loc'[p].cas_retry = loc[p].cas_retry + 1
            /\ loc'[p].cas_retry <= CasAttempts
            /\ IF loc'[p].cas_retry < CasAttempts
               THEN pc'[p] = "m_gets"
               ELSE /\ pc'[p] = "done"
                    /\ result'[p].status = "UnexpectedError"
                    /\ LET t == loc[p].token_id
                           stored == mc_cache'[<<"tokens", t>>]
                       IN  /\ stored.present
                           /\ stored.value.id = t
                           /\ BeforeExpirySecond(stored.value.expires, now')
                                  => mc_get_token(mc_cache', t, now')
                                         = [status |-> "ok", data |-> stored.value]]_vars

\* Witness of C10: a create_token has ended with UnexpectedError after
\* CasAttempts rejected writes, and get_token returns its primary record.
C10_Witness ==
    \E p \in Procs :
        /\ pc[p] = "done"
        /\ result[p].op = "create_token"
        /\ result[p].status = "UnexpectedError"
        /\ loc[p].cas_retry = CasAttempts
        /\ mc_get_token(mc_cache, result[p].arg, now)
               = [status |-> "ok", data |-> loc[p].data]
        /\ mc_cache[<<"usertokens", loc[p].data.user_id>>] = McNil

\* The token ids in the CAS strategy's index of user u.
McIndexIds(cache, u) ==
    LET obj == cache[<<"usertokens", u>>]
        list == _convert_user_index_from_json(obj.value, 0)
    IN  IF obj.present THEN {list[i][1] : i \in 1..Len(list)} ELSE {}

\* C11: CAS strategy, concurrent create_token calls for one user against an
\* atomic compare-and-swap backend, under every interleaving of their fetch
\* and compareAndSwap steps: a call that ends has either committed its own
\* index entry (it returns and the entry is in the index) or reports
\* UnexpectedError to its caller, and no step removes a committed id from
\* the index, so that after two calls have succeeded the index holds both
\* token ids.
C11_CasNoLostUpdate ==
    [][\A u \in Users :
          /\ McIndexIds(mc_cache, u) \subseteq McIndexIds(mc_cache', u)
          /\ \A p \in Procs :
                 (pc[p] = "m_cas" /\ pc'[p] = "done" /\ loc[p].data.user_id = u) =>
                     \/ /\ result'[p].status = "ok"
                        /\ loc[p].token_id \in McIndexIds(mc_cache', u)
                     \/ /\ result'[p].status = "UnexpectedError"
                        /\ loc'[p].cas_retry = CasAttempts
                        /\ mc_cache' = mc_cache]_vars

\* Witness of C11: two calls whose fetches both saw the same index have
\* both succeeded, one of them after a rejected write and a reread, and the
\* index holds both ids.
C11_Witness ==
    \E p, q \in Procs :
        /\ p # q
        /\ pc[p] = "done" /\ pc[q] = "done"
        /\ result[p].op = "create_token" /\ result[q].op = "create_token"
        /\ result[p].status = "ok" /\ result[q].status = "ok"
        /\ result[p].arg # result[q].arg
        /\ loc[p].user_record = EmptyIndex
        /\ loc[q].cas_retry = 1
        /\ {result[p].arg, result[q].arg} \subseteq McIndexIds(mc_cache, "u1")

\* C12: CAS strategy: an index value that is malformed or no string decodes
\* to the empty list, whatever it holds, and list_tokens for a user whose
\* stored index is such a value returns no tokens and does not fail.
C12_CorruptIndexIsEmpty ==
    [][\A p \in Procs :
          (pc[p] = "idle" /\ result'[p].op = "list_tokens") =>
              LET stored == mc_get(mc_cache, <<"usertokens", result'[p].arg[1]>>, now)
              IN  /\ result'[p].status = "ok"
                  /\ (stored.found /\ stored.value.kind \in {"invalid_json", "non_string"})
                         => /\ _convert_user_index_from_json(stored.value, now) = <<>>
                            /\ result'[p].tokens = <<>>]_vars

\* Witness of C12: list_tokens has returned no tokens for a user whose
\* stored index is malformed and who has a token that get_token returns.
C12_Witness ==
    \E p \in Procs :
        /\ pc[p] = "done"
        /\ result[p].op = "list_tokens"
        /\ result[p].status = "ok"
        /\ result[p].tokens = <<>>
        /\ mc_cache[<<"usertokens", "u1">>].present
        /\ mc_cache[<<"usertokens", "u1">>].value.kind = "invalid_json"
        /\ mc_get_token(mc_cache, "t1", now).status = "ok"

\* The sorted set that a read by caller p, just made, has pruned.
PrunedKey(p) ==
    IF result'[p].op = "list_tokens"
    THEN _get_key("user", result'[p].arg[1])
    ELSE _revocation_list

\* C13: right after the prune that list_tokens(principal) or
\* list_revoked_tokens() makes at clock value now, the pruned sorted set (the
\* principal's index, the revocation list) holds no entry whose expiry score
\* (whole seconds) is <= now, the entries whose score is > now are all still
\* in it, and no other sorted set has changed.
C13_PruneOnRead ==
    [][\A p \in Procs :
          (/\ pc[p] = "idle"
           /\ result'[p].op \in {"list_tokens", "list_revoked_tokens"})
          => /\ \A e \in zsets'[PrunedKey(p)] : e.score * TicksPerSecond > now
             /\ \A e \in zsets[PrunedKey(p)] :
                    e.score * TicksPerSecond > now => e \in zsets'[PrunedKey(p)]
             /\ zsets'[PrunedKey(p)] \subseteq zsets[PrunedKey(p)]
             /\ SameExcept(zsets, zsets', PrunedKey(p))]_vars

\* Witness of C13: a list_tokens has pruned the entry of one token of u1 and
\* left the entry of another in place.
C13_Witness ==
    \E p \in Procs :
        /\ pc[p] = "done"
        /\ result[p].op = "list_tokens"
        /\ result[p].arg[1] = "u1"
        /\ \E t \in SeqIds :
               /\ store[_get_key("token", t)].present
               /\ store[_get_key("token", t)].value.user_id = "u1"
               /\ \A e \in zsets[_get_key("user", "u1")] : e.member # t
        /\ \E e \in zsets[_get_key("user", "u1")] : e.score * TicksPerSecond > now

\* The revocation list, and the entry delete_token adds to it for a record.
Ledger == zsets[_revocation_list]
RevokedEntry(data) == [member |-> data, score |-> _to_timestamp(data.expires)]

\* C14: in every reachable state the revocation list holds exactly one entry
\* for each token whose delete_token has succeeded, unless a prune could
\* have removed it (its score is <= the clock), also when several
\* delete_token calls for one id interleave; and the list gets an entry only
\* from the ZADD of a delete_token, for the record that call looked up:
\* every other step (the passing of time and of a time to live included)
\* leaves it as it is or, for list_revoked_tokens, removes entries.
C14_OneRevocationEntry ==
    /\ [](\A t \in TokenIds :
             deleted[t] # NoData =>
                 LET entries == {e \in Ledger : e.member = deleted[t]}
                 IN  \/ entries = {RevokedEntry(deleted[t])}
                     \/ /\ entries = {}
                        /\ RevokedEntry(deleted[t]).score * TicksPerSecond <= now)
    /\ [][Ledger' # Ledger =>
             \/ \E p \in Procs :
                    /\ pc[p] = "d_zadd"
                    /\ pc'[p] = "d_bgsave"
                    /\ Ledger' = Ledger \cup {RevokedEntry(loc[p].data)}
             \/ \E p \in Procs :
                    /\ pc[p] = "idle"
                    /\ result'[p].op = "list_revoked_tokens"
                    /\ Ledger' \subseteq Ledger]_vars

\* Witness of C14: two delete_token calls for one id have run interleaved,
\* both have succeeded, and the revocation list holds one entry.
C14_Witness ==
    \E p, q \in Procs :
        /\ p # q
        /\ pc[p] = "done" /\ pc[q] = "done"
        /\ result[p].op = "delete_token" /\ result[q].op = "delete_token"
        /\ result[p].status = "ok" /\ result[q].status = "ok"
        /\ result[p].arg = result[q].arg
        /\ loc[p].data = loc[q].data
        /\ Ledger = {RevokedEntry(loc[p].data)}

\* Is the primary record of token_id absent at time clock: an empty id, a
\* key never set or deleted, or one whose time to live has run out?
Absent(s, token_id, clock) ==
    \/ token_id \notin TokenIds
    \/ ~s[_get_key("token", token_id)].present
    \/ clock >= s[_get_key("token", token_id)].expire_at

\* C15: delete_token(id) for an id whose primary record is absent (never
\* created, already deleted, or its time to live run out) fails with
\* TokenNotFound in its first step, leaves the string keys and every sorted
\* set (the indexes and the revocation list) unchanged and issues no BGSAVE.
C15_DeleteAbsentNoEffect ==
    [][\A p \in Procs :
          (/\ pc[p] = "idle"
           /\ (pc'[p] = "d_delete" \/ result'[p].op = "delete_token")
           /\ Absent(store, loc'[p].token_id, now))
          => /\ pc'[p] = "done"
             /\ result'[p].status = "TokenNotFound"
             /\ store' = store
             /\ zsets' = zsets
             /\ saving' = saving
             /\ loc'[p].bgsave_calls = 0]_vars

\* Witness of C15: a delete_token of a token whose time to live has run out
\* (the key was set and not deleted) has failed with TokenNotFound.
C15_Witness ==
    \E p \in Procs :
        /\ pc[p] = "done"
        /\ result[p].op = "delete_token"
        /\ result[p].status = "TokenNotFound"
        /\ result[p].arg \in TokenIds
        /\ store[_get_key("token", result[p].arg)].present
        /\ now >= store[_get_key("token", result[p].arg)].expire_at
        /\ zsets[_get_key("user", "u1")] # {}

\* C16: a delete_token that succeeds makes its backend calls in the order
\* GET (the lookup), DEL of the primary key, ZADD of the record to the
\* revocation list with the second of the record's expiry as score, BGSAVE:
\* each call is followed by the next one and changes nothing but its own
\* target; the BGSAVE is issued once per successful delete_token, after the
\* ZADD.
C16_DeleteOrder ==
    [][\A p \in Procs :
          LET key == _get_key("token", loc'[p].token_id)
          IN  /\ (pc[p] = "idle" /\ pc'[p] = "d_delete")
                  => /\ store[key].present
                     /\ loc'[p].data = store[key].value
                     /\ loc'[p].bgsave_calls = 0
                     /\ UNCHANGED <<store, zsets, saving>>
              /\ (pc[p] = "d_delete" /\ pc'[p] # "d_delete")
                  => /\ pc'[p] = "d_zadd"
                     /\ ~store'[key].present
                     /\ \A k \in TokenKeys \ {key} : store'[k] = store[k]
                     /\ loc'[p] = loc[p]
                     /\ UNCHANGED <<zsets, saving>>
              /\ (pc[p] = "d_zadd" /\ pc'[p] # "d_zadd")
                  => /\ pc'[p] = "d_bgsave"
                     /\ [member |-> loc[p].data,
                         score |-> loc[p].data.expires \div TicksPerSecond] \in Ledger'
                     /\ SameExcept(zsets, zsets', _revocation_list)
                     /\ loc'[p] = loc[p]
                     /\ UNCHANGED <<store, saving>>
              /\ (pc[p] = "d_bgsave" /\ pc'[p] # "d_bgsave")
                  => /\ pc'[p] = "done"
                     /\ loc'[p].bgsave_calls = 1
                     /\ result'[p].status = "ok" => ~saving /\ saving'
                     /\ UNCHANGED <<store, zsets>>
              /\ (/\ pc[p] # "done" /\ pc'[p] = "done"
                  /\ result'[p].op = "delete_token" /\ result'[p].status = "ok")
                  => pc[p] = "d_bgsave"]_vars

\* Witness of C16: a delete_token has succeeded after one BGSAVE; its record
\* is gone from the string keys and is in the revocation list.
C16_Witness ==
    \E p \in Procs :
        /\ pc[p] = "done"
        /\ result[p].op = "delete_token"
        /\ result[p].status = "ok"
        /\ loc[p].bgsave_calls = 1
        /\ saving
        /\ ~store[_get_key("token", result[p].arg)].present
        /\ RevokedEntry(loc[p].data) \in Ledger

\* The token ids in the index of user u.
IndexIds(z, u) == {e.member : e \in z[_get_key("user", u)]}

\* Is the step a list_tokens(u), made by some caller?
IsListTokens(u) ==
    \E p \in Procs :
        /\ pc[p] = "idle"
        /\ result'[p].op = "list_tokens"
        /\ result'[p].arg[1] = u

\* C17: native-index strategy: an id leaves a principal's index only in a
\* list_tokens for that principal (create_token and delete_token remove
\* none); after a successful delete_token(id) the id stays in its owner's
\* index while the clock has not passed the token's expiry, and the first
\* list_tokens for the owner after the expiry has passed removes it.
C17_IndexCleanupOnRead ==
    [][\A u \in Users :
          /\ IndexIds(zsets, u) \ IndexIds(zsets', u) # {} => IsListTokens(u)
          /\ \A t \in IndexIds(zsets, u) :
                 (deleted[t] # NoData /\ deleted[t].user_id = u) =>
                     /\ now < deleted[t].expires => t \in IndexIds(zsets', u)
                     /\ (now > deleted[t].expires /\ IsListTokens(u))
                            => t \notin IndexIds(zsets', u)]_vars

\* C18: CAS strategy: the index a create_token writes is the index it
\* fetched without the entries whose expiry has passed, in their order,
\* followed by the new entry (id, expiry): with one valid and one expired
\* entry fetched, the stored index then holds exactly two entries, the old
\* valid one and the new one.
C18_CasPrunesThenAppends ==
    [][\A p \in Procs :
          (pc[p] = "m_cas" /\ pc'[p] = "done" /\ result'[p].status = "ok") =>
              LET fetched == _convert_user_index_from_json(loc[p].user_record,
                                                           loc[p].current_time)
                  kept == {i \in 1..Len(fetched) : fetched[i][2] > loc[p].current_time}
                  new == mc_cache'[<<"usertokens", loc[p].data.user_id>>]
              IN  /\ new.present
                  /\ new.value.kind = "list"
                  /\ Len(new.value.items) = Cardinality(kept) + 1
                  /\ new.value.items[Len(new.value.items)]
                         = <<loc[p].token_id, loc[p].data.expires>>
                  /\ \A i \in kept :
                         new.value.items[Cardinality({j \in kept : j <= i})] = fetched[i]]_vars

\* Witness of C18: a create_token that fetched an index of one valid and
\* one expired entry has returned, and the stored index holds two entries.
C18_Witness ==
    \E p \in Procs :
        /\ pc[p] = "done"
        /\ result[p].op = "create_token"
        /\ result[p].status = "ok"
        /\ loc[p].user_record.kind = "list"
        /\ Len(loc[p].user_record.items) = 2
        /\ \E i, j \in 1..2 :
               /\ loc[p].user_record.items[i][2] > loc[p].current_time
               /\ loc[p].user_record.items[j][2] <= loc[p].current_time
        /\ mc_cache[<<"usertokens", "u1">>].value.kind = "list"
        /\ Len(mc_cache[<<"usertokens", "u1">>].value.items) = 2
        /\ \A i \in 1..2 :
               mc_cache[<<"usertokens", "u1">>].value.items[i][2] > loc[p].current_time

\* Has the call of p taken less time than the life of the token it creates:
\* the time to live given to SETEX has not run out and the second of the
\* expiry lies ahead?
StillLive(p) ==
    /\ now < loc[p].current_time
               + ((loc[p].data.expires - loc[p].current_time) \div TicksPerSecond)
                 * TicksPerSecond
    /\ now \div TicksPerSecond < loc[p].data.expires \div TicksPerSecond

\* C19: a create_token that fails on the unknown token version of a
\* trust-delegated record (trust enabled) leaves what it has written: the
\* primary record and the owner's index entry are in place, so that right
\* after the failure (the token's life not being over) get_token(id)
\* returns the record and list_tokens(owner) returns the id; no sorted set
\* but the owner's index has changed (the trustee's has no entry for the id
\* from this call).
C19_NoRollbackOnUnknownVersion ==
    [][\A p \in Procs :
          (/\ pc[p] # "done" /\ pc'[p] = "done"
           /\ result'[p].op = "create_token"
           /\ result'[p].status = "UnsupportedTokenVersionException")
          => LET data == loc[p].data
                 owner == _get_key("user", data.user_id)
             IN  /\ trust_enabled /\ data.trust_id # ""
                 /\ data.token_version \notin {V2, V3}
                 /\ store'[_get_key("token", loc[p].token_id)].present
                 /\ store'[_get_key("token", loc[p].token_id)].value = data
                 /\ [member |-> loc[p].token_id,
                     score |-> data.expires \div TicksPerSecond] \in zsets'[owner]
                 /\ StillLive(p) =>
                        /\ get_token(store', loc[p].token_id, now')
                               = [status |-> "ok", data |-> data]
                        /\ loc[p].token_id \in
                               Range(list_tokens(store', zsets', now', data.user_id,
                                                 "", "", "").tokens)
                 /\ SameExcept(zsets, zsets', owner)
                 /\ data.trustee_user_id # data.user_id]_vars

\* Witness of C19: a create_token has failed on an unknown token version;
\* the record is returned by get_token, the id is listed for the owner and
\* the trustee's index is empty.
C19_Witness ==
    \E p \in Procs :
        /\ pc[p] = "done"
        /\ UnknownVersionCreate(p)
        /\ result[p].status = "UnsupportedTokenVersionException"
        /\ StillLive(p)
        /\ Retrievable(result[p].arg)
        /\ result[p].arg \in Listed(loc[p].data.user_id)
        /\ zsets[_get_key("user", loc[p].data.trustee_user_id)] = {}

\* C20: token ids not being used for a second create_token, in every
\* reachable state, the states in the middle of a delete_token running
\* beside other calls included, no token is both returned by get_token and
\* in the revocation list.
C20_NeverRetrievableAndRevoked ==
    \A t \in TokenIds :
        ~(/\ get_token(store, t, now).status = "ok"
          /\ \E e \in Ledger : e.member.id = t)

\* Witness of C20: a delete_token is between its ZADD and its BGSAVE, the
\* record is in the revocation list, and another caller's get_token of the
\* id has failed with TokenNotFound.
C20_Witness ==
    \E p, q \in Procs :
        /\ pc[p] = "d_bgsave"
        /\ RevokedEntry(loc[p].data) \in Ledger
        /\ pc[q] = "done"
        /\ result[q].op = "get_token"
        /\ result[q].arg = loc[p].token_id
        /\ result[q].status = "TokenNotFound"
        /\ now < loc[p].data.expires

====
